---- MODULE Spec2Model ----
(***************************************************************************)
(* Cerumbra: the cryptographic demonstration (example.py) and the          *)
(* verification script (verify.py).                                        *)
(*                                                                         *)
(* verify.main runs eight checks in order; the fifth launches example.py   *)
(* as a subprocess.  example.main runs ECDH, HKDF and AES-GCM through the  *)
(* `cryptography` library.  The library primitives are modelled by the     *)
(* algorithms they implement, over small parameters: ECDH on the curve     *)
(* y^2 = x^3 + 2x + 2 over GF(17) (a group of prime order 19), HKDF as     *)
(* extract-then-expand over a 4-bit keyed hash, AES-GCM as counter mode    *)
(* plus GHASH over GF(2^4) with a 4-bit block permutation.                 *)
(***************************************************************************)
EXTENDS Integers, Sequences, FiniteSets, TLC

VARIABLES
    vf,         \* verify.main: [pc, results, summary, status]
    call,       \* the check verify.main is in or ran last: [fn, arg, ret]
    installed,  \* the Python packages importable by sys.executable
    ex,         \* the example.py process: its locals, position, exception, exit code
    output,     \* what example.py has written to standard output: [text, shown, reveals]
    aead        \* the AEAD codec applied to arbitrary inputs: [pc, key, m, ad, iv, data, out]

vars == <<vf, call, installed, ex, output, aead>>

----------------------------------------------------------------------------
(* Bounds of the model *)

\* interpreter versions considered: major 2..MaxMajor, minor 0..MaxMinor, micro 0..MaxMicro
MaxMajor == 4
MaxMinor == 8
MaxMicro == 1
\* GPUs (lines of nvidia-smi output) considered
MaxGpus == 2
\* private scalars are drawn from 1..MaxPriv (below the group order)
MaxPriv == 17
\* nonces are drawn from 0..MaxNonce
MaxNonce == 1
\* plaintext and associated data lengths, in blocks
MaxLen == 2
MaxAdLen == 1
\* required files that may be missing at once
MaxMissing == 1

None == <<>>
Unset == 0 - 1

----------------------------------------------------------------------------
(* Python str operations used by verify.py, on strings as character tuples *)

Whitespace == {" ", "\t"}

LowerChar(c) ==
    CASE c = "C" -> "c" [] c = "D" -> "d" [] c = "E" -> "e" [] c = "F" -> "f"
      [] c = "N" -> "n" [] c = "O" -> "o" [] c = "R" -> "r" [] c = "S" -> "s"
      [] c = "U" -> "u" [] OTHER -> c

lower(s) == [i \in 1..Len(s) |-> LowerChar(s[i])]

RECURSIVE lstrip(_)
lstrip(s) == IF s # <<>> /\ Head(s) \in Whitespace THEN lstrip(Tail(s)) ELSE s

RECURSIVE rstrip(_)
rstrip(s) ==
    IF s # <<>> /\ s[Len(s)] \in Whitespace THEN rstrip(SubSeq(s, 1, Len(s) - 1)) ELSE s

strip(s) == rstrip(lstrip(s))

\* `k in s` for str
Contains(s, k) ==
    \E i \in 1..(Len(s) - Len(k) + 1) : SubSeq(s, i, i + Len(k) - 1) = k

----------------------------------------------------------------------------
(* verify.py: check_python_version *)

Versions ==
    [major : 2..MaxMajor, minor : 0..MaxMinor, micro : 0..MaxMicro]

check_python_version(version) ==
    version.major >= 3 /\ version.minor >= 7

----------------------------------------------------------------------------
(* verify.py: check_dependencies *)

required == <<"websockets", "cryptography">>

RECURSIVE missing_packages(_, _)
missing_packages(packages, have) ==
    IF packages = <<>> THEN <<>>
    ELSE (IF Head(packages) \in have THEN <<>> ELSE <<Head(packages)>>)
         \o missing_packages(Tail(packages), have)

check_dependencies(have) == missing_packages(required, have) = <<>>

----------------------------------------------------------------------------
(* verify.py: check_files *)

files ==
    {"index.html", "styles.css", "demo.js", "server.py", "example.py",
     "requirements.txt", "README.md", "CONTRIBUTING.md", "architecture.svg", "LICENSE"}

check_files(existing) == \A filename \in files : filename \in existing

----------------------------------------------------------------------------
(* verify.py: check_confidential_compute *)

secure_keywords ==
    << <<"e","n","a","b","l","e","d">>, <<"s","e","c","u","r","e">>, <<"o","n">> >>

\* lines nvidia-smi may print for conf_computing_mode, one per GPU
ModeEnabled == <<"E","n","a","b","l","e","d">>
ModeDisabled == <<"D","i","s","a","b","l","e","d">>
ModeOn == <<"O","N">>
ModeOff == <<"O","F","F">>
ModeNone == <<"N","o","n","e">>
ModeSecure == <<" ","S","E","C","U","R","E"," ">>
ModeNonSecure == <<"N","o","n","-","S","e","c","u","r","e">>
ModeBlank == <<" ">>

RawLines ==
    {ModeEnabled, ModeDisabled, ModeOn, ModeOff, ModeNone, ModeSecure,
     ModeNonSecure, ModeBlank}

\* what the environment hands to check_confidential_compute
SmiInputs ==
    [which : {FALSE}, raises : {FALSE}, returncode : {0}, stdout : {<<>>}]
    \cup [which : {TRUE}, raises : {TRUE}, returncode : {0}, stdout : {<<>>}]
    \cup [which : {TRUE}, raises : {FALSE}, returncode : {1}, stdout : {<<>>}]
    \cup [which : {TRUE}, raises : {FALSE}, returncode : {0},
          stdout : UNION {[1..n -> RawLines] : n \in 0..MaxGpus}]

\* lines = [line.strip() for line in result.stdout.splitlines() if line.strip()]
RECURSIVE stripped_lines(_)
stripped_lines(raw) ==
    IF raw = <<>> THEN <<>>
    ELSE (IF strip(Head(raw)) # <<>> THEN <<strip(Head(raw))>> ELSE <<>>)
         \o stripped_lines(Tail(raw))

\* any(keyword in lower for keyword in secure_keywords)
line_is_secure(line) ==
    \E k \in 1..Len(secure_keywords) : Contains(lower(line), secure_keywords[k])

check_confidential_compute(smi) ==
    IF ~smi.which THEN TRUE
    ELSE IF smi.raises THEN TRUE
    ELSE IF smi.returncode # 0 THEN FALSE
    ELSE LET lines == stripped_lines(smi.stdout) IN
         IF lines = <<>> THEN FALSE
         ELSE \A idx \in 1..Len(lines) : line_is_secure(lines[idx])

----------------------------------------------------------------------------
(* example.py: ec.generate_private_key(ec.SECP256R1()), public_key(),      *)
(* exchange(ec.ECDH(), peer_public), over a small curve                    *)

\* y^2 = x^3 + a x + b over GF(p), base point G of prime order n
SECP256R1 == [p |-> 17, a |-> 2, b |-> 2, G |-> <<5, 1>>, n |-> 19]

Infinity == <<>>

Mod(x, m) == ((x % m) + m) % m

RECURSIVE ModPow(_, _, _)
ModPow(x, e, m) ==
    IF e = 0 THEN 1
    ELSE IF e % 2 = 1 THEN Mod(x * ModPow(x, e - 1, m), m)
    ELSE LET h == ModPow(x, e \div 2, m) IN Mod(h * h, m)

ModInv(x, m) == ModPow(Mod(x, m), m - 2, m)

PointAdd(P, Q) ==
    LET c == SECP256R1 IN
    IF P = Infinity THEN Q
    ELSE IF Q = Infinity THEN P
    ELSE IF P[1] = Q[1] /\ Mod(P[2] + Q[2], c.p) = 0 THEN Infinity
    ELSE LET lam == IF P = Q
                    THEN Mod((3 * P[1] * P[1] + c.a) * ModInv(2 * P[2], c.p), c.p)
                    ELSE Mod((Q[2] - P[2]) * ModInv(Q[1] - P[1], c.p), c.p)
             x3 == Mod(lam * lam - P[1] - Q[1], c.p)
             y3 == Mod(lam * (P[1] - x3) - P[2], c.p)
         IN <<x3, y3>>

RECURSIVE ScalarMult(_, _)
ScalarMult(k, P) ==
    IF k = 0 THEN Infinity
    ELSE IF k % 2 = 1 THEN PointAdd(P, ScalarMult(k - 1, P))
    ELSE LET H == ScalarMult(k \div 2, P) IN PointAdd(H, H)

\* the scalars generate_private_key may return
PrivateKeys == 1..MaxPriv

public_key(private) == ScalarMult(private, SECP256R1.G)

\* private.exchange(ec.ECDH(), peer_public): the x coordinate of private * peer_public
exchange(private, peer_public) == ScalarMult(private, peer_public)[1]

----------------------------------------------------------------------------
(* 4-bit arithmetic of the symmetric primitives *)

RECURSIVE Xor(_, _)
Xor(x, y) ==
    IF x = 0 THEN y
    ELSE IF y = 0 THEN x
    ELSE (((x % 2) + (y % 2)) % 2) + 2 * Xor(x \div 2, y \div 2)

\* multiplication by x in GF(2^4) modulo x^4 + x + 1
XTime(x) == IF 2 * x >= 16 THEN Xor(2 * x - 16, 3) ELSE 2 * x

RECURSIVE GfMul(_, _)
GfMul(x, y) ==
    IF y = 0 THEN 0
    ELSE Xor(IF y % 2 = 1 THEN x ELSE 0, GfMul(XTime(x), y \div 2))

\* the keyed hash of HKDF (HMAC-SHA256 in the library), over a block sequence
RECURSIVE Hmac(_, _)
Hmac(key, data) ==
    IF data = <<>> THEN Mod(7 * key + 11, 16)
    ELSE Hmac(Mod(5 * Xor(key, Head(data)) + 3, 16), Tail(data))

\* the block cipher under a key: a permutation of 0..15
BlockEncrypt(key, block) == Mod(7 * Mod(block + key, 16) + 5 * key + 3, 16)

----------------------------------------------------------------------------
(* example.py: HKDF(algorithm=SHA256, length=32, salt=None, info=...).derive *)

info == "cerumbra-v1-encryption"

InfoBytes(i) == IF i = "cerumbra-v1-encryption" THEN <<12, 1>> ELSE <<0>>

\* extract with the all-zero salt, then one block of expand
hkdf_derive(shared_secret) ==
    LET prk == Hmac(0, <<shared_secret>>)
    IN Hmac(prk, InfoBytes(info) \o <<1>>)

----------------------------------------------------------------------------
(* example.py: AESGCM(key).encrypt(iv, plaintext, aad) / decrypt(iv, data, aad) *)

\* the counter block for nonce iv: i = 1 is J0, data blocks use i = 2, 3, ...
CounterBlock(iv, i) == Mod(4 * iv + i, 16)

Keystream(key, iv, i) == BlockEncrypt(key, CounterBlock(iv, i + 1))

Ctr(key, iv, blocks) ==
    [i \in 1..Len(blocks) |-> Xor(blocks[i], Keystream(key, iv, i))]

RECURSIVE GHash(_, _, _)
GHash(h, x, blocks) ==
    IF blocks = <<>> THEN x
    ELSE GHash(h, GfMul(Xor(x, Head(blocks)), h), Tail(blocks))

Tag(key, iv, ct, aad) ==
    LET h == BlockEncrypt(key, 0)
        lens == Mod(4 * Len(aad) + Len(ct), 16)
    IN Xor(GHash(h, 0, aad \o ct \o <<lens>>), BlockEncrypt(key, CounterBlock(iv, 1)))

\* returns ciphertext with the tag appended
aesgcm_encrypt(key, iv, plaintext, aad) ==
    LET ct == Ctr(key, iv, plaintext) IN ct \o <<Tag(key, iv, ct, aad)>>

\* keystream taken from J0 instead of J0 + 1
aesgcm_decrypt_from_j0(key, iv, data, aad) ==
    IF Len(data) < 1 THEN [ok |-> FALSE, plaintext |-> None]
    ELSE LET ct == SubSeq(data, 1, Len(data) - 1)
             tag == data[Len(data)]
         IN IF tag # Tag(key, iv, ct, aad) THEN [ok |-> FALSE, plaintext |-> None]
            ELSE [ok |-> TRUE,
                  plaintext |-> [i \in 1..Len(ct) |-> Xor(ct[i], Keystream(key, iv, i - 1))]]

\* verifies the tag, then returns the plaintext; ok = FALSE stands for InvalidTag
aesgcm_decrypt(key, iv, data, aad) ==
    IF Len(data) < 1 THEN [ok |-> FALSE, plaintext |-> None]
    ELSE LET ct == SubSeq(data, 1, Len(data) - 1)
             tag == data[Len(data)]
         IN IF tag # Tag(key, iv, ct, aad) THEN [ok |-> FALSE, plaintext |-> None]
            ELSE [ok |-> TRUE, plaintext |-> Ctr(key, iv, ct)]

----------------------------------------------------------------------------
(* example.py: message.encode('utf-8') and decrypted.decode('utf-8') *)

\* the message of demonstrate_aes_gcm (ASCII only), shortened
message == <<"H", "i">>

\* the code unit of an ASCII character
CharUnit(c) == CASE c = "H" -> 4 [] c = "i" -> 6 [] c = "!" -> 2 [] OTHER -> 0

UnitChar(u) == CASE u = 4 -> "H" [] u = 6 -> "i" [] u = 2 -> "!" [] OTHER -> "?"

encode(s) == [i \in 1..Len(s) |-> CharUnit(s[i])]

\* [ok, text]; a unit with the high bit set starts a multi-unit character, which
\* no unit sequence here completes: ok = FALSE stands for UnicodeDecodeError
decode(bs) ==
    IF \E i \in 1..Len(bs) : bs[i] >= 8
    THEN [ok |-> FALSE, text |-> None]
    ELSE [ok |-> TRUE, text |-> [i \in 1..Len(bs) |-> UnitChar(bs[i])]]

----------------------------------------------------------------------------
(* verify.py: validate_html_structure, validate_javascript, print_summary *)

html_checks ==
    {"<!DOCTYPE html>", "<head>", "<body>", "demo.js", "styles.css", "Cerumbra"}

js_checks ==
    {"CerumbraClient", "crypto.subtle", "generateKeyPair", "encrypt", "decrypt", "ECDH"}

\* a file as read: whether open/read succeeded and which of the needles it contains
Contents(needles) ==
    [readable : BOOLEAN,
     has : {needles \ gone : gone \in {g \in SUBSET needles : Cardinality(g) <= MaxMissing}}]

validate_html_structure(content) ==
    content.readable /\ \A check \in html_checks : check \in content.has

validate_javascript(content) ==
    content.readable /\ \A check \in js_checks : check \in content.has

CheckNames ==
    <<"Python Version", "Dependencies", "Confidential Compute", "Files",
      "Crypto Operations", "HTML Structure", "JavaScript", "Server Imports">>

\* sum(results.values()): True counts 1
RECURSIVE Sum(_)
Sum(values) ==
    IF values = <<>> THEN 0 ELSE (IF Head(values) THEN 1 ELSE 0) + Sum(Tail(values))

\* passed >= 1 instead of passed == total
print_summary_any(results) ==
    LET total == Len(results)
        passed == Sum(results)
    IN [total |-> total, passed |-> passed, failed |-> total - passed,
        success |-> passed >= 1]

print_summary(results) ==
    LET total == Len(results)
        passed == Sum(results)
    IN [total |-> total, passed |-> passed, failed |-> total - passed,
        success |-> passed = total]

----------------------------------------------------------------------------
(* State *)

ExInit ==
    [pc |-> "none",
     browser_private |-> Unset, browser_public |-> None,
     tee_private |-> Unset, tee_public |-> None,
     browser_shared |-> Unset, tee_shared |-> Unset,
     shared_secret |-> Unset, encryption_key |-> Unset,
     iv |-> Unset, ciphertext |-> None, decrypted_message |-> None,
     hkdf_calls |-> 0, encrypt_calls |-> 0, decrypt_calls |-> 0,
     error |-> "none", exitcode |-> Unset]

AeadIdle ==
    [pc |-> "idle", key |-> Unset, m |-> None, ad |-> None, iv |-> Unset,
     data |-> None, out |-> None]

VfInit == [pc |-> "python", results |-> <<>>, summary |-> None, status |-> Unset]

CallInit == [fn |-> "none", arg |-> None, ret |-> FALSE]

Init ==
    /\ vf = VfInit
    /\ call = CallInit
    /\ installed \in SUBSET {"websockets", "cryptography"}
    /\ ex = ExInit
    /\ output = <<>>
    /\ aead = AeadIdle

\* a check returned: its result is the next entry of the results dict
Returned(fn, arg, ret, nextpc) ==
    /\ vf' = [vf EXCEPT !.pc = nextpc, !.results = Append(@, ret)]
    /\ call' = [fn |-> fn, arg |-> arg, ret |-> ret]

----------------------------------------------------------------------------
(* verify.main: the checks before the subprocess *)

CheckPythonVersion ==
    /\ vf.pc = "python"
    /\ \E version \in Versions :
         Returned("check_python_version", version, check_python_version(version), "deps")
    /\ UNCHANGED <<installed, ex, output, aead>>

CheckDependencies ==
    /\ vf.pc = "deps"
    /\ Returned("check_dependencies", installed, check_dependencies(installed), "cc")
    /\ UNCHANGED <<installed, ex, output, aead>>

CheckConfidentialCompute ==
    /\ vf.pc = "cc"
    /\ \E smi \in SmiInputs :
         Returned("check_confidential_compute", smi, check_confidential_compute(smi), "files")
    /\ UNCHANGED <<installed, ex, output, aead>>

CheckFiles ==
    /\ vf.pc = "files"
    /\ \E gone \in {g \in SUBSET files : Cardinality(g) <= MaxMissing} :
         Returned("check_files", files \ gone, check_files(files \ gone), "crypto")
    /\ UNCHANGED <<installed, ex, output, aead>>

----------------------------------------------------------------------------
(* verify.py: test_crypto_operations, around the example.py subprocess *)

\* subprocess.run([sys.executable, 'example.py'], ...) starts the child, or raises
TestCryptoLaunch ==
    /\ vf.pc = "crypto"
    /\ \E spawned \in BOOLEAN :
         IF spawned
         THEN /\ vf' = [vf EXCEPT !.pc = "crypto_wait"]
              /\ ex' = [ExInit EXCEPT !.pc = "spawned"]
              /\ call' = [fn |-> "test_crypto_operations", arg |-> None, ret |-> FALSE]
         ELSE /\ Returned("test_crypto_operations", [raised |-> "OSError"], FALSE, "html")
              /\ ex' = ex
    /\ UNCHANGED <<installed, output, aead>>

\* the process is gone: only its exit code and what ended it remain
Reaped(e, code) ==
    [ExInit EXCEPT !.pc = "reaped", !.error = e.error, !.exitcode = code]

crypto_test_passed(returncode) == returncode = 0

\* the child exited within the timeout
TestCryptoFinish ==
    /\ vf.pc = "crypto_wait"
    /\ ex.pc = "exited"
    /\ Returned("test_crypto_operations", [returncode |-> ex.exitcode],
                crypto_test_passed(ex.exitcode), "html")
    /\ ex' = Reaped(ex, ex.exitcode)
    /\ output' = <<>>
    /\ UNCHANGED <<installed, aead>>

\* subprocess.TimeoutExpired: the child is killed
TestCryptoTimeout ==
    /\ vf.pc = "crypto_wait"
    /\ ex.pc # "exited"
    /\ Returned("test_crypto_operations", [raised |-> "TimeoutExpired"], FALSE, "html")
    /\ ex' = Reaped(ex, 0 - 9)
    /\ output' = <<>>
    /\ UNCHANGED <<installed, aead>>

----------------------------------------------------------------------------
(* example.py *)

\* a line of narration
Line(text, reveals) == [text |-> text, shown |-> None, reveals |-> reveals]

\* bytes.hex(): two hexadecimal digits per unit
hex(x) == <<x \div 16, x % 16>>

\* a line printing value.hex()[:32], the first half of the digits of a 32-byte
\* value: it reveals the value it is cut from unless the slice is empty
HexLine(text, name, value) ==
    LET digits == SubSeq(hex(value), 1, Len(hex(value)) \div 2)
    IN [text |-> text, shown |-> digits,
        reveals |-> IF digits # <<>> THEN {name} ELSE {}]

\* the error is recorded and the stage carries on
RaiseAndContinue(e, err) == [e EXCEPT !.error = err]

\* an exception leaves the demonstrate_* frames and reaches main's except clause
Raise(e, err) == [e EXCEPT !.pc = "except", !.error = err]

\* the interpreter exits: nothing of the process state remains but the outcome
Exited(e, code) ==
    [ExInit EXCEPT !.pc = "exited", !.error = e.error, !.exitcode = code,
                   !.hkdf_calls = e.hkdf_calls, !.encrypt_calls = e.encrypt_calls,
                   !.decrypt_calls = e.decrypt_calls]

\* each side passes its own public key
PeerSelf(party) == party

\* the party whose public key a side passes to exchange()
PeerOf(party) == IF party = "browser" THEN "tee" ELSE "browser"

PublicOf(e, party) == IF party = "browser" THEN e.browser_public ELSE e.tee_public

\* the imports (lines 13-19), then main's banner; a failed import or a missing
\* script is not inside main's try
ExStart ==
    /\ ex.pc = "spawned"
    /\ \E script_found \in BOOLEAN :
         IF ~script_found
         THEN /\ ex' = Exited([ex EXCEPT !.error = "FileNotFoundError"], 2)
              /\ output' = output
         ELSE IF "cryptography" \notin installed
         THEN /\ ex' = Exited([ex EXCEPT !.error = "ImportError"], 1)
              /\ output' = output
         ELSE /\ ex' = [ex EXCEPT !.pc = "gen_browser"]
              /\ output' = output \o <<Line("Cerumbra Cryptographic Operations Demo", {}),
                                       Line("Complete Cerumbra Flow", {})>>
    /\ UNCHANGED <<vf, call, installed, aead>>

\* demonstrate_ecdh: the browser's key pair
GenBrowser ==
    /\ ex.pc = "gen_browser"
    /\ \E private \in PrivateKeys, raised \in BOOLEAN :
         IF raised
         THEN /\ ex' = Raise(ex, "generate_private_key")
              /\ output' = output \o <<Line("Browser: Generating ECDH key pair...", {})>>
         ELSE /\ ex' = [ex EXCEPT !.browser_private = private,
                                  !.browser_public = public_key(private),
                                  !.pc = "gen_tee"]
              /\ output' = output \o <<Line("Browser: Generating ECDH key pair...", {}),
                                       Line("Browser key pair generated", {})>>
    /\ UNCHANGED <<vf, call, installed, aead>>

\* demonstrate_ecdh: the TEE's key pair
GenTee ==
    /\ ex.pc = "gen_tee"
    /\ \E private \in PrivateKeys, raised \in BOOLEAN :
         IF raised
         THEN /\ ex' = Raise(ex, "generate_private_key")
              /\ output' = output \o <<Line("TEE: Generating ECDH key pair...", {})>>
         ELSE /\ ex' = [ex EXCEPT !.tee_private = private,
                                  !.tee_public = public_key(private),
                                  !.pc = "exchange"]
              /\ output' = output \o <<Line("TEE: Generating ECDH key pair...", {}),
                                       Line("TEE key pair generated", {})>>
    /\ UNCHANGED <<vf, call, installed, aead>>

\* demonstrate_ecdh: both sides perform ECDH (lines 46-48)
Exchange ==
    /\ ex.pc = "exchange"
    /\ \E raised \in BOOLEAN :
         ex' = IF raised THEN Raise(ex, "exchange")
               ELSE [ex EXCEPT
                       !.browser_shared =
                           exchange(ex.browser_private, PublicOf(ex, PeerOf("browser"))),
                       !.tee_shared =
                           exchange(ex.tee_private, PublicOf(ex, PeerOf("tee"))),
                       !.pc = "ecdh_assert"]
    /\ output' = output \o <<Line("Performing ECDH key exchange...", {})>>
    /\ UNCHANGED <<vf, call, installed, aead>>

\* demonstrate_ecdh: the assertion, the report and the return (lines 50-55);
\* the frame's locals end with it, its result is demonstrate_full_flow's shared_secret
EcdhAssert ==
    /\ ex.pc = "ecdh_assert"
    /\ IF ex.browser_shared # ex.tee_shared
       THEN /\ ex' = Raise(ex, "AssertionError")
            /\ output' = output
       ELSE /\ ex' = [ex EXCEPT !.shared_secret = ex.browser_shared,
                                !.browser_private = Unset, !.browser_public = None,
                                !.tee_private = Unset, !.tee_public = None,
                                !.browser_shared = Unset, !.tee_shared = Unset,
                                !.pc = "hkdf"]
            /\ output' = output \o
                 <<HexLine("Shared secret established", "shared_secret",
                           ex.browser_shared)>>
    /\ UNCHANGED <<vf, call, installed, aead>>

\* demonstrate_hkdf
Hkdf ==
    /\ ex.pc = "hkdf"
    /\ \E raised \in BOOLEAN :
         IF raised
         THEN /\ ex' = Raise([ex EXCEPT !.hkdf_calls = @ + 1], "derive")
              /\ output' = output \o
                   <<HexLine("Input", "shared_secret", ex.shared_secret),
                     Line("Info: cerumbra-v1-encryption", {})>>
         ELSE /\ ex' = [ex EXCEPT !.encryption_key = hkdf_derive(ex.shared_secret),
                                  !.hkdf_calls = @ + 1,
                                  !.pc = "aes_encrypt"]
              /\ output' = output \o
                   <<HexLine("Input", "shared_secret", ex.shared_secret),
                     Line("Info: cerumbra-v1-encryption", {}),
                     HexLine("Derived encryption key", "session_key",
                             hkdf_derive(ex.shared_secret))>>
    /\ UNCHANGED <<vf, call, installed, aead>>

\* demonstrate_aes_gcm: encryption (lines 85-100)
AesEncrypt ==
    /\ ex.pc = "aes_encrypt"
    /\ \E iv \in 0..MaxNonce, raised \in BOOLEAN :
         IF raised
         THEN /\ ex' = Raise([ex EXCEPT !.encrypt_calls = @ + 1], "encrypt")
              /\ output' = output \o <<Line("Original message", {})>>
         ELSE /\ ex' = [ex EXCEPT
                          !.iv = iv,
                          !.ciphertext =
                              aesgcm_encrypt(ex.encryption_key, iv, encode(message), None),
                          !.encrypt_calls = @ + 1,
                          !.pc = "aes_decrypt"]
              /\ output' = output \o <<Line("Original message", {}),
                                       Line("IV and ciphertext", {})>>
    /\ UNCHANGED <<vf, call, installed, aead>>

\* demonstrate_aes_gcm: decryption (lines 102-108)
AesDecrypt ==
    /\ ex.pc = "aes_decrypt"
    /\ LET r == aesgcm_decrypt(ex.encryption_key, ex.iv, ex.ciphertext, None)
           d == decode(r.plaintext)
           e == [ex EXCEPT !.decrypt_calls = @ + 1]
       IN IF ~r.ok THEN /\ ex' = Raise(e, "InvalidTag")
                        /\ output' = output
          ELSE IF ~d.ok THEN /\ ex' = Raise(e, "UnicodeDecodeError")
                             /\ output' = output
          ELSE /\ ex' = [e EXCEPT !.decrypted_message = d.text, !.pc = "aes_assert"]
               /\ output' = output \o <<Line("Decrypted message", {})>>
    /\ UNCHANGED <<vf, call, installed, aead>>

\* demonstrate_aes_gcm: the assertion and the return (lines 110-112)
AesAssert ==
    /\ ex.pc = "aes_assert"
    /\ IF ex.decrypted_message # message
       THEN /\ ex' = Raise(ex, "AssertionError")
            /\ output' = output
       ELSE /\ ex' = [ex EXCEPT !.iv = Unset, !.ciphertext = None,
                                !.decrypted_message = None, !.pc = "attestation"]
            /\ output' = output \o <<Line("Message integrity verified!", {})>>
    /\ UNCHANGED <<vf, call, installed, aead>>

\* demonstrate_attestation, then demonstrate_full_flow returns to main
Attestation ==
    /\ ex.pc = "attestation"
    /\ \E raised \in BOOLEAN :
         IF raised
         THEN /\ ex' = Raise(ex, "token_bytes")
              /\ output' = output
         ELSE /\ ex' = [ex EXCEPT !.shared_secret = Unset, !.encryption_key = Unset,
                                  !.pc = "complete"]
              /\ output' = output \o <<Line("TEE measurements and nonce", {})>>
    /\ UNCHANGED <<vf, call, installed, aead>>

\* main, lines 175-184, and the interpreter's exit
MainComplete ==
    /\ ex.pc = "complete"
    /\ ex' = Exited(ex, 0)
    /\ output' = output \o <<Line("All cryptographic operations successful!", {})>>
    /\ UNCHANGED <<vf, call, installed, aead>>

\* main, lines 186-189: the except clause reports and main returns normally
MainExcept ==
    /\ ex.pc = "except"
    /\ ex' = Exited(ex, 0)
    /\ output' = output \o <<Line("Error: e", {})>>
    /\ UNCHANGED <<vf, call, installed, aead>>

----------------------------------------------------------------------------
(* verify.main: the checks after the subprocess, the summary, the exit status *)

ValidateHtml ==
    /\ vf.pc = "html"
    /\ \E content \in Contents(html_checks) :
         Returned("validate_html_structure", content, validate_html_structure(content), "js")
    /\ UNCHANGED <<installed, ex, output, aead>>

ValidateJavascript ==
    /\ vf.pc = "js"
    /\ \E content \in Contents(js_checks) :
         Returned("validate_javascript", content, validate_javascript(content), "server")
    /\ UNCHANGED <<installed, ex, output, aead>>

\* test_server_imports: True unless `import server` raises
TestServerImports ==
    /\ vf.pc = "server"
    /\ \E imported \in BOOLEAN :
         Returned("test_server_imports", imported, imported, "summary")
    /\ UNCHANGED <<installed, ex, output, aead>>

\* success = print_summary(results); return 0 if success else 1
MainReturn ==
    /\ vf.pc = "summary"
    /\ LET summary == print_summary(vf.results)
       IN vf' = [vf EXCEPT !.pc = "exit", !.summary = summary,
                           !.status = IF summary.success THEN 0 ELSE 1]
    /\ UNCHANGED <<call, installed, ex, output, aead>>

Next ==
    \/ CheckPythonVersion \/ CheckDependencies \/ CheckConfidentialCompute \/ CheckFiles
    \/ TestCryptoLaunch \/ TestCryptoFinish \/ TestCryptoTimeout
    \/ ExStart \/ GenBrowser \/ GenTee \/ Exchange \/ EcdhAssert \/ Hkdf
    \/ AesEncrypt \/ AesDecrypt \/ AesAssert \/ Attestation \/ MainComplete \/ MainExcept
    \/ ValidateHtml \/ ValidateJavascript \/ TestServerImports \/ MainReturn

Spec == Init /\ [][Next]_vars

----------------------------------------------------------------------------
(* The AEAD codec of demonstrate_aes_gcm on arbitrary keys, plaintexts and *)
(* associated data                                                         *)

Keys == 0..15

PlainBytes == {0, 4, 6, 15}

AdBytes == {3}

InitAead ==
    /\ vf = VfInit
    /\ call = CallInit
    /\ installed = {"websockets", "cryptography"}
    /\ ex = ExInit
    /\ output = <<>>
    /\ \E key \in Keys,
          m \in UNION {[1..n -> PlainBytes] : n \in 0..MaxLen},
          ad \in UNION {[1..n -> AdBytes] : n \in 0..MaxAdLen} :
         aead = [AeadIdle EXCEPT !.pc = "input", !.key = key, !.m = m, !.ad = ad]

\* iv = secrets.token_bytes(12); ciphertext = aesgcm.encrypt(iv, plaintext, ad)
AeadEncrypt ==
    /\ aead.pc = "input"
    /\ \E iv \in 0..MaxNonce :
         aead' = [aead EXCEPT !.iv = iv,
                              !.data = aesgcm_encrypt(aead.key, iv, aead.m, aead.ad),
                              !.pc = "encrypted"]
    /\ UNCHANGED <<vf, call, installed, ex, output>>

\* decrypted = aesgcm.decrypt(iv, ciphertext, ad), same key object
AeadDecrypt ==
    /\ aead.pc = "encrypted"
    /\ aead' = [aead EXCEPT !.out = aesgcm_decrypt(aead.key, aead.iv, aead.data, aead.ad),
                            !.pc = "decrypted"]
    /\ UNCHANGED <<vf, call, installed, ex, output>>

NextAead == AeadEncrypt \/ AeadDecrypt

SpecAead == InitAead /\ [][NextAead]_vars

----------------------------------------------------------------------------
(* Properties *)

\* C1: AEAD round trip. For every key, every plaintext (the empty one and the
\* demonstration's encoded message included) and every associated data, decrypting
\* under the same key, nonce and associated data what encrypt returned succeeds and
\* returns exactly the plaintext.
C1_RoundTrip ==
    aead.pc = "decrypted" => (aead.out.ok /\ aead.out.plaintext = aead.m)

C1_Witness ==
    /\ aead.pc = "decrypted"
    /\ aead.m = encode(message)
    /\ aead.ad # None
    /\ aead.out.ok

\* C2: key-agreement symmetry. Whatever two key pairs are generated, the browser's
\* and the TEE's shared secrets are equal when the assertion of demonstrate_ecdh is
\* evaluated, and no run ends in an AssertionError.
C2_AgreeSymmetric ==
    /\ ex.pc = "ecdh_assert" => ex.browser_shared = ex.tee_shared
    /\ ex.error # "AssertionError"

C2_Witness ==
    /\ ex.pc = "ecdh_assert"
    /\ ex.browser_private # ex.tee_private
    /\ ex.browser_shared # Unset

\* C4: failures are surfaced. example.py exits with code 0 only when no stage
\* failed, and test_crypto_operations returns True only when no stage failed.
C4_FailuresSurfaced ==
    /\ (ex.pc \in {"exited", "reaped"} /\ ex.exitcode = 0) => ex.error = "none"
    /\ (call.fn = "test_crypto_operations" /\ vf.pc = "html" /\ call.ret)
           => ex.error = "none"

\* C5: end-to-end session. In every complete run each side has derived the session
\* key from its own secret (two derivations) and both directions were exercised: the
\* request was encrypted and decrypted, and so was the reply (two encryptions, two
\* decryptions).
C5_EndToEnd ==
    ex.pc = "complete" =>
        /\ ex.hkdf_calls = 2
        /\ ex.encrypt_calls = 2
        /\ ex.decrypt_calls = 2

\* the position of a stage in the session's order; "except" is the closed session
StageRank(pc) ==
    CASE pc = "none" -> 0 [] pc = "spawned" -> 1
      [] pc = "gen_browser" -> 2 [] pc = "gen_tee" -> 3
      [] pc = "exchange" -> 4 [] pc = "ecdh_assert" -> 5
      [] pc = "hkdf" -> 6
      [] pc = "aes_encrypt" -> 7 [] pc = "aes_decrypt" -> 8 [] pc = "aes_assert" -> 9
      [] pc = "attestation" -> 10 [] pc = "complete" -> 11
      [] pc = "except" -> 12 [] pc = "exited" -> 13 [] pc = "reaped" -> 14

\* C6: session stage ordering. Every step of the session moves to a later stage
\* (none is revisited); encryption and decryption happen only with the session key
\* derived; a failure in agreement or derivation moves straight to the closed
\* session, from which no stage runs again; and the error, once set, is retained.
C6_StageOrder ==
    [][ /\ ex' # ex => StageRank(ex'.pc) > StageRank(ex.pc)
        /\ (ex'.encrypt_calls > ex.encrypt_calls \/ ex'.decrypt_calls > ex.decrypt_calls)
               => (ex.hkdf_calls > 0 /\ ex.encryption_key # Unset)
        /\ (ex.pc \in {"exchange", "ecdh_assert", "hkdf"}
              /\ ex.error = "none" /\ ex'.error # "none")
               => ex'.pc = "except"
        /\ ex.pc = "except" => ex'.pc \in {"except", "exited", "reaped"}
        /\ ex.error # "none" => ex'.error = ex.error
      ]_vars

C6_Witness ==
    /\ ex.pc = "except"
    /\ ex.error = "derive"
    /\ ex.encrypt_calls = 0

\* C7: no key material in diagnostics. No line written by the session stages reveals
\* any part of a private key, the shared secret or the session key, and once the
\* session key is derived the shared secret is no longer held.
C7_NoKeyMaterial ==
    /\ \A i \in 1..Len(output) : output[i].reveals = {}
    /\ ex.encryption_key # Unset => ex.shared_secret = Unset

\* C8: verification verdict. When verify.main returns, all eight checks have run,
\* the exit status is 0 exactly when every one of them returned True and 1
\* otherwise, and the summary's Failed is the number of checks that returned False.
C8_Verdict ==
    vf.pc = "exit" =>
        /\ Len(vf.results) = Len(CheckNames)
        /\ vf.status = 0 <=> (\A i \in 1..Len(vf.results) : vf.results[i])
        /\ vf.status \in {0, 1}
        /\ vf.summary.total = Len(CheckNames)
        /\ vf.summary.failed = Cardinality({i \in 1..Len(vf.results) : ~vf.results[i]})
        /\ vf.summary.failed = vf.summary.total - vf.summary.passed

C8_Witness ==
    /\ vf.pc = "exit"
    /\ vf.status = 1
    /\ ~vf.results[1]
    /\ vf.results[Len(CheckNames)]

\* the modes that mean confidential computing is enabled
EnabledModes ==
    {<<"e","n","a","b","l","e","d">>, <<"o","n">>, <<"s","e","c","u","r","e">>}

ModeIsEnabled(line) == lower(strip(line)) \in EnabledModes

\* C9: confidential-compute gate. With nvidia-smi present and its query run, the
\* check returns True only if the query exited 0, reported at least one GPU and
\* every reported GPU is in an enabled mode; with nvidia-smi absent or the query
\* raising it returns True.
C9_Gate ==
    call.fn = "check_confidential_compute" =>
        LET smi == call.arg
            reported == stripped_lines(smi.stdout)
        IN IF ~smi.which \/ smi.raises THEN call.ret
           ELSE call.ret =>
                  /\ smi.returncode = 0
                  /\ reported # <<>>
                  /\ \A i \in 1..Len(reported) : ModeIsEnabled(reported[i])

\* C10: Python version gate. The check returns True exactly when the version is
\* 3.7 or higher in version order.
C10_VersionGate ==
    call.fn = "check_python_version" =>
        (call.ret <=> (\/ call.arg.major > 3
                       \/ (call.arg.major = 3 /\ call.arg.minor >= 7)))

====
